---- MODULE Spec2Model ----
(***************************************************************************)
(* Model of 1_setup_environment.py: the seven environment checks and the   *)
(* driver main() that runs them in order, prints the summary and returns   *)
(* the exit code.                                                          *)
(*                                                                         *)
(* A check is an operator from the values it reads from the host (the      *)
(* interpreter's version triple, the pip subprocess outcome, the prefixes, *)
(* the free space, the network request outcome, the torch library) to a    *)
(* completion: either a returned boolean or an exception that leaves the   *)
(* function.  main() is a sequence of steps, one per call site.            *)
(*                                                                         *)
(* Sizes are in KiB rather than bytes so that 10 GiB fits the integers of  *)
(* the model checker; the comparison against the threshold is unchanged.   *)
(* The glyphs U+2713 and U+2717 of the status markers are written "v" and  *)
(* "x".                                                                    *)
(***************************************************************************)
EXTENDS Integers, Sequences, FiniteSets, TLC

VARIABLES pc, calls, checks, obs, last, rows, line, ret

vars == <<pc, calls, checks, obs, last, rows, line, ret>>

(***************************************************************************)
(* Bounds of the enumerated inputs.                                        *)
(***************************************************************************)
MaxMajor == 4
MaxMinor == 12
MaxMicro == 1
MaxReturnCode == 2
MaxDevices == 2
MaxFreeGB == 11

(***************************************************************************)
(* Program constants.                                                      *)
(***************************************************************************)
RequiredMajor == 3
MinimumMinor == 10
MinimumFreeGB == 10
KiBPerGiB == 1048576
StatusWidth == 8

(***************************************************************************)
(* Python completions and exception matching.                              *)
(***************************************************************************)
Return(v) == [exc |-> "None", value |-> v]

Raise(e) == [exc |-> e, value |-> FALSE]

\* The base class of each exception class the checks can meet.
BaseClass ==
  [ CalledProcessError  |-> "SubprocessError",
    SubprocessError     |-> "Exception",
    FileNotFoundError   |-> "OSError",
    PermissionError     |-> "OSError",
    TimeoutError        |-> "OSError",
    URLError            |-> "OSError",
    OSError             |-> "Exception",
    ModuleNotFoundError |-> "ImportError",
    ImportError         |-> "Exception",
    RuntimeError        |-> "Exception",
    AttributeError      |-> "Exception",
    Exception           |-> "BaseException" ]

RECURSIVE IsInstance(_, _)
\* Whether an exception of class e is caught by "except cls".
IsInstance(e, cls) ==
  IF e = cls THEN TRUE
  ELSE IF e \in DOMAIN BaseClass THEN IsInstance(BaseClass[e], cls)
  ELSE FALSE

(***************************************************************************)
(* What each check reads from the host.                                    *)
(***************************************************************************)
VersionInfo ==
  [ check : {"check_python_version"},
    major : 2..MaxMajor, minor : (MinimumMinor - 1)..MaxMinor, micro : 0..MaxMicro ]

PlatformInfo ==
  [ check : {"check_system_info"}, system : {"Windows", "Linux"} ]

\* subprocess.run: the launch either succeeds or raises; a launched pip exits
\* with a return code.
PipRuns ==
  [ check : {"check_pip"},
    launch : {"None", "FileNotFoundError", "PermissionError"},
    returncode : 0..MaxReturnCode ]

Prefixes == {"/usr", "/home/u/chatterbox_env"}

\* sys.base_prefix exists on every interpreter that can run the script; the
\* legacy marker sys.real_prefix is set by old virtualenv releases, which
\* leave sys.base_prefix equal to sys.prefix.

SysPrefixes ==
  [ check : {"check_venv"},
    has_real_prefix : BOOLEAN, has_base_prefix : {TRUE},
    base_prefix : Prefixes, prefix : Prefixes ]

\* Free sizes around the threshold, in KiB, and the same in 4 KiB blocks.
FreeKiB ==
  { g * KiBPerGiB + d : g \in {0, MinimumFreeGB, MaxFreeGB}, d \in {-1, 0} } \cap Nat

FreeBlocks ==
  { g * (KiBPerGiB \div 4) + d : g \in {0, MinimumFreeGB, MaxFreeGB}, d \in {-1, 0} } \cap Nat

DiskQueries ==
  [ check : {"check_disk_space"}, system : {"Windows"},
    error : {"None", "AttributeError", "OSError"},
    free_bytes : FreeKiB, f_bavail : {0}, f_frsize : {4} ]
  \cup
  [ check : {"check_disk_space"}, system : {"Linux"},
    error : {"None", "FileNotFoundError", "OSError"},
    free_bytes : {0}, f_bavail : FreeBlocks, f_frsize : {4} ]

UrlOpens ==
  [ check : {"check_internet"},
    urlopen : {"None", "TimeoutError", "URLError", "OSError"} ]

\* import torch succeeds or raises; is_available() implies a device exists;
\* the per-device queries succeed or raise.
TorchStates ==
  { t \in [ check : {"check_gpu"},
            import : {"None", "ImportError", "ModuleNotFoundError", "OSError"},
            available : BOOLEAN, count : 0..MaxDevices,
            query : {"None", "RuntimeError"} ] :
      t.available => t.count >= 1 }

(***************************************************************************)
(* The checks.                                                             *)
(***************************************************************************)
check_python_version_loose(v) ==
  IF v.major >= RequiredMajor /\ v.minor > MinimumMinor THEN Return(TRUE) ELSE Return(FALSE)

check_python_version(v) ==
  IF v.major = RequiredMajor /\ v.minor >= MinimumMinor THEN Return(TRUE) ELSE Return(FALSE)

check_system_info(p) == Return(TRUE)

\* subprocess.run(..., check=True)
subprocess_run(r) ==
  IF r.launch # "None" THEN Raise(r.launch)
  ELSE IF r.returncode # 0 THEN Raise("CalledProcessError")
  ELSE Return(TRUE)

check_pip(r) ==
  LET result == subprocess_run(r) IN
  IF result.exc = "None" THEN Return(TRUE)
  ELSE IF IsInstance(result.exc, "CalledProcessError") THEN Return(FALSE)
  ELSE Raise(result.exc)

check_venv_prefix_only(s) ==
  Return(s.has_base_prefix /\ s.base_prefix # s.prefix)

check_venv(s) ==
  LET in_venv == s.has_real_prefix \/ (s.has_base_prefix /\ s.base_prefix # s.prefix) IN
  IF in_venv THEN Return(TRUE) ELSE Return(FALSE)

\* The free space the try block measures, in KiB, or the error it raises.
free_space(d) ==
  IF d.error # "None" THEN Raise(d.error)
  ELSE IF d.system = "Windows" THEN [exc |-> "None", value |-> d.free_bytes]
  ELSE [exc |-> "None", value |-> d.f_bavail * d.f_frsize]

check_disk_space_blocking(d) ==
  LET m == free_space(d) IN
  IF m.exc = "None"
  THEN IF m.value >= MinimumFreeGB * KiBPerGiB THEN Return(TRUE) ELSE Return(FALSE)
  ELSE IF IsInstance(m.exc, "Exception") THEN Return(TRUE)
  ELSE Raise(m.exc)

check_disk_space(d) ==
  LET m == free_space(d) IN
  IF m.exc = "None"
  THEN IF m.value >= MinimumFreeGB * KiBPerGiB THEN Return(TRUE) ELSE Return(TRUE)
  ELSE IF IsInstance(m.exc, "Exception") THEN Return(TRUE)
  ELSE Raise(m.exc)

check_internet(u) ==
  IF u.urlopen = "None" THEN Return(TRUE)
  ELSE IF IsInstance(u.urlopen, "Exception") THEN Return(FALSE)
  ELSE Raise(u.urlopen)

\* The body of the try block of check_gpu.
gpu_try(t) ==
  IF t.import # "None" THEN Raise(t.import)
  ELSE IF t.available
       THEN IF t.count >= 1 /\ t.query # "None" THEN Raise(t.query) ELSE Return(TRUE)
       ELSE Return(TRUE)

check_gpu_requires_device(t) ==
  LET r == gpu_try(t) IN
  IF r.exc = "None" THEN Return(t.available)
  ELSE IF IsInstance(r.exc, "ImportError") THEN Return(TRUE)
  ELSE Raise(r.exc)

check_gpu(t) ==
  LET r == gpu_try(t) IN
  IF r.exc = "None" THEN r
  ELSE IF IsInstance(r.exc, "ImportError") THEN Return(TRUE)
  ELSE Raise(r.exc)

(***************************************************************************)
(* Formatting of the summary.                                              *)
(***************************************************************************)
Digit == <<"0", "1", "2", "3", "4", "5", "6", "7", "8", "9">>

RECURSIVE Str(_)
\* The decimal text of a natural number, as an f-string field prints it.
Str(n) == IF n < 10 THEN Digit[n + 1] ELSE Str(n \div 10) \o Digit[(n % 10) + 1]

RECURSIVE LJust(_, _)
\* A text left-justified in a field of the given width ("{status:8}").
LJust(s, width) == IF Len(s) >= width THEN s ELSE LJust(s \o " ", width)

StatusInverted(result) == IF result THEN "x FAIL" ELSE "v PASS"

Status(result) == IF result THEN "v PASS" ELSE "x FAIL"

SummaryRow(c) == LJust(Status(c[2]), StatusWidth) \o " - " \o c[1]

RECURSIVE Passed(_)
\* sum(1 for _, result in checks if result)
Passed(cs) ==
  IF cs = <<>> THEN 0
  ELSE (IF Head(cs)[2] THEN 1 ELSE 0) + Passed(Tail(cs))

SummaryLine(passed, total) == Str(passed) \o "/" \o Str(total) \o " checks passed"

ExitCodeAny(passed, total) == IF passed > 0 THEN 0 ELSE 1

ExitCode(passed, total) == IF passed = total THEN 0 ELSE 1

(***************************************************************************)
(* main(): the call sites in program order.                                *)
(***************************************************************************)
MainCallsSwapped ==
  << [name |-> "Python Version",      fn |-> "check_python_version"],
     [name |-> "System Info",         fn |-> "check_system_info"],
     [name |-> "Virtual Environment", fn |-> "check_venv"],
     [name |-> "pip",                 fn |-> "check_pip"],
     [name |-> "Disk Space",          fn |-> "check_disk_space"],
     [name |-> "Internet",            fn |-> "check_internet"],
     [name |-> "GPU (Optional)",      fn |-> "check_gpu"] >>

MainCalls ==
  << [name |-> "Python Version",      fn |-> "check_python_version"],
     [name |-> "System Info",         fn |-> "check_system_info"],
     [name |-> "pip",                 fn |-> "check_pip"],
     [name |-> "Virtual Environment", fn |-> "check_venv"],
     [name |-> "Disk Space",          fn |-> "check_disk_space"],
     [name |-> "Internet",            fn |-> "check_internet"],
     [name |-> "GPU (Optional)",      fn |-> "check_gpu"] >>

\* Where main() continues after its k-th call has returned.
AfterCall(k) == IF k < Len(MainCalls) THEN MainCalls[k + 1].fn ELSE "summary"

\* The position of a call site in main().
CallSite(fn) == CHOOSE k \in 1..Len(MainCalls) : MainCalls[k].fn = fn

Init ==
  /\ pc = MainCalls[1].fn
  /\ calls = <<>>
  /\ checks = <<>>
  /\ obs = [check |-> "none"]
  /\ last = Return(TRUE)
  /\ rows = <<>>
  /\ line = ""
  /\ ret = <<>>

\* checks.append((name, check())): the check is called with what it reads
\* from the host; a returned value is appended and main() continues, an
\* exception leaves main().
Call(fn, o, r) ==
  /\ pc = fn
  /\ calls' = Append(calls, fn)
  /\ obs' = o
  /\ last' = r
  /\ IF r.exc = "None"
     THEN /\ checks' = Append(checks, <<MainCalls[CallSite(fn)].name, r.value>>)
          /\ pc' = AfterCall(CallSite(fn))
     ELSE /\ checks' = checks
          /\ pc' = "raised"
  /\ UNCHANGED <<rows, line, ret>>

CallCheckPythonVersion ==
  \E v \in VersionInfo : Call("check_python_version", v, check_python_version(v))

CallCheckSystemInfo ==
  \E p \in PlatformInfo : Call("check_system_info", p, check_system_info(p))

CallCheckPip ==
  \E r \in PipRuns : Call("check_pip", r, check_pip(r))

CallCheckVenv ==
  \E s \in SysPrefixes : Call("check_venv", s, check_venv(s))

CallCheckDiskSpace ==
  \E d \in DiskQueries : Call("check_disk_space", d, check_disk_space(d))

CallCheckInternet ==
  \E u \in UrlOpens : Call("check_internet", u, check_internet(u))

CallCheckGpu ==
  \E t \in TorchStates : Call("check_gpu", t, check_gpu(t))

\* The summary table, the "<passed>/<total> checks passed" line and the
\* return value of main().
Summary ==
  /\ pc = "summary"
  /\ LET passed == Passed(checks)
         total == Len(checks)
     IN /\ rows' = [i \in 1..Len(checks) |-> SummaryRow(checks[i])]
        /\ line' = SummaryLine(passed, total)
        /\ ret' = <<ExitCode(passed, total)>>
  /\ pc' = "done"
  /\ UNCHANGED <<calls, checks, obs, last>>

Next ==
  \/ CallCheckPythonVersion
  \/ CallCheckSystemInfo
  \/ CallCheckPip
  \/ CallCheckVenv
  \/ CallCheckDiskSpace
  \/ CallCheckInternet
  \/ CallCheckGpu
  \/ Summary

Spec == Init /\ [][Next]_vars

(***************************************************************************)
(* Properties.                                                             *)
(***************************************************************************)
\* The outcome main() recorded under a check name.
Outcome(name) ==
  LET k == CHOOSE i \in 1..Len(checks) : checks[i][1] = name IN checks[k][2]

Completed == pc = "done"

\* C1: when main() runs to completion it returns 0 iff all seven recorded
\* outcomes are true and 1 otherwise; System Info, Disk Space and GPU are
\* always recorded true, so it returns 0 exactly when the version, pip,
\* virtual-environment and internet checks all returned true.
C1_ExitCodeIffAllPass ==
  Completed =>
    /\ Len(checks) = 7
    /\ (ret = <<0>>) <=> (\A i \in 1..7 : checks[i][2])
    /\ (ret = <<1>>) <=> (\E i \in 1..7 : ~checks[i][2])
    /\ Outcome("System Info") /\ Outcome("Disk Space") /\ Outcome("GPU (Optional)")
    /\ (ret = <<0>>) <=> /\ Outcome("Python Version")
                         /\ Outcome("pip")
                         /\ Outcome("Virtual Environment")
                         /\ Outcome("Internet")

C1_Witness == Completed /\ ret = <<0>> /\ \A i \in 1..7 : checks[i][2]

\* C2: no error escapes a check function: every call of a check ends by
\* returning a boolean, so main() never ends with an exception.
C2_NoErrorEscapes == last.exc = "None" /\ pc # "raised"

\* C3: check_pip returns true iff the pip subprocess exits with status 0; a
\* nonzero status and a failure to launch both yield a returned false.
C3_PipReturnsIffExitZero ==
  obs.check = "check_pip" =>
    /\ last.exc = "None"
    /\ last.value <=> (obs.launch = "None" /\ obs.returncode = 0)

ExpectedCalls ==
  << "check_python_version", "check_system_info", "check_pip", "check_venv",
     "check_disk_space", "check_internet", "check_gpu" >>

ExpectedNames ==
  << "Python Version", "System Info", "pip", "Virtual Environment",
     "Disk Space", "Internet", "GPU (Optional)" >>

\* C4: main() invokes the seven checks once each in the fixed order, a check
\* that returns (true or false) is always followed by the next one, and when
\* the summary is printed the result sequence holds the seven (name, outcome)
\* pairs in invocation order.
C4_FixedOrderNoEarlyExit ==
  /\ Len(calls) <= 7
  /\ calls = SubSeq(ExpectedCalls, 1, Len(calls))
  /\ (last.exc = "None" /\ Len(calls) \in 1..6) => pc = ExpectedCalls[Len(calls) + 1]
  /\ (last.exc = "None") => Len(checks) = Len(calls)
  /\ \A i \in 1..Len(checks) : checks[i][1] = ExpectedNames[i]
  /\ pc \in {"summary", "done"} => (calls = ExpectedCalls /\ Len(checks) = 7)
  /\ (rows # <<>> \/ line # "" \/ ret # <<>>) => pc = "done"

C4_Witness ==
  /\ Completed
  /\ ~Outcome("Python Version") /\ ~Outcome("pip")
  /\ ~Outcome("Virtual Environment") /\ ~Outcome("Internet")

\* C5 as stated: check_venv returns true iff the base prefix and the active
\* prefix differ, whether or not the legacy real_prefix marker is present.
C5_VenvIffPrefixesDiffer ==
  obs.check = "check_venv" =>
    /\ last.exc = "None"
    /\ last.value <=> (obs.base_prefix # obs.prefix)

\* C5 amended: check_venv returns true iff the legacy real_prefix marker is
\* present or the base prefix and the active prefix differ; it returns false
\* exactly when the marker is absent and the prefixes are equal.
C5_VenvIffMarkerOrPrefixesDiffer ==
  obs.check = "check_venv" =>
    /\ last.exc = "None"
    /\ last.value <=> (obs.has_real_prefix \/ obs.base_prefix # obs.prefix)

C5_Witness ==
  /\ obs.check = "check_venv"
  /\ obs.has_real_prefix /\ obs.base_prefix = obs.prefix
  /\ last = Return(TRUE)

C7_DiskSpaceAlwaysTrue ==
  /\ obs.check = "check_disk_space" => (last = Return(TRUE) /\ pc = "check_internet")
  /\ Len(checks) >= 5 => checks[5] = <<"Disk Space", TRUE>>

C7_Witness ==
  /\ obs.check = "check_disk_space"
  /\ obs.system = "Linux" /\ obs.error = "None"
  /\ obs.f_bavail * obs.f_frsize < MinimumFreeGB * KiBPerGiB
  /\ last = Return(TRUE)

\* C8: check_internet returns true iff the request completes without
\* raising and false when it raises; after a false internet outcome the run
\* does not abort: the GPU check and the summary execute and main() returns 1.
C8_InternetFailureDoesNotAbort ==
  /\ obs.check = "check_internet" =>
       (last.exc = "None" /\ (last.value <=> obs.urlopen = "None"))
  /\ (Len(checks) >= 6 /\ ~checks[6][2]) => pc # "raised"
  /\ (Completed /\ ~checks[6][2]) => ret = <<1>>

\* C9: check_python_version returns true for every triple with major = 3 and
\* minor >= 10, and false for major = 3 with minor < 10 and for every major
\* other than 3.
C9_VersionCheck ==
  obs.check = "check_python_version" =>
    /\ last.exc = "None"
    /\ (obs.major = 3 /\ obs.minor >= 10) => last.value
    /\ (obs.major = 3 /\ obs.minor < 10) => ~last.value
    /\ (obs.major # 3) => ~last.value

C9_Witness ==
  /\ obs.check = "check_python_version"
  /\ obs.major = 3 /\ obs.minor = 10 /\ obs.micro = 0
  /\ last = Return(TRUE)

\* C10: in the summary of a completed run the total is 7, the passed count
\* is the number of true outcomes, each row carries PASS exactly when its
\* outcome is true and FAIL otherwise; all gating checks passing gives
\* "7/7 checks passed" and exit code 0, only pip failing gives "6/7 checks
\* passed", exit code 1 and the pip row alone marked FAIL.
C10_SummaryMatchesOutcomes ==
  Completed =>
    LET trues == {i \in 1..Len(checks) : checks[i][2]}
        gating == {"Python Version", "pip", "Virtual Environment", "Internet"}
    IN /\ Len(rows) = 7
       /\ line = Digit[Cardinality(trues) + 1] \o "/7 checks passed"
       /\ \A i \in 1..7 :
            rows[i] = (IF checks[i][2] THEN "v PASS   - " ELSE "x FAIL   - ") \o ExpectedNames[i]
       /\ (\A n \in gating : Outcome(n)) => (line = "7/7 checks passed" /\ ret = <<0>>)
       /\ (~Outcome("pip") /\ \A n \in gating \ {"pip"} : Outcome(n)) =>
            /\ line = "6/7 checks passed"
            /\ ret = <<1>>
            /\ rows[3] = "x FAIL   - pip"
            /\ \A i \in (1..7) \ {3} : rows[i] = "v PASS   - " \o ExpectedNames[i]

C10_Witness ==
  /\ Completed
  /\ line = "6/7 checks passed"
  /\ ~Outcome("pip")
  /\ rows[3] = "x FAIL   - pip"

====
